---- MODULE Spec2Model ----
(***************************************************************************)
(* A model of prompt_fab/templates.py: the bidirectional template          *)
(* combinators (fill: data -> text, match: text -> data) and the cursor    *)
(* they share.                                                             *)
(*                                                                         *)
(* Text is a sequence of one-character strings; a cursor position p is     *)
(* 0-based as in Python, so the next character to read is s[p + 1].        *)
(* Python values are tagged records, so that values of different Python    *)
(* types can be compared.                                                  *)
(***************************************************************************)
EXTENDS Integers, Sequences, FiniteSets, TLC

(***************************************************************************)
(* Bounds of the model.                                                    *)
(***************************************************************************)
\* Longest input text handed to match (texts produced by fill are not bounded).
MaxLen == 4

\* Most values the Repeat loop may collect before the model stops following it.
MaxVals == 6

(***************************************************************************)
(* Python values.                                                          *)
(***************************************************************************)
None == [tag |-> "None"]

PyStr(s) == [tag |-> "str", s |-> s]

PyInt(i) == [tag |-> "int", i |-> i]

PyBool(b) == [tag |-> "bool", b |-> b]

\* A tuple, as Append._match returns and Append.fill consumes.
PyTuple(items) == [tag |-> "tuple", items |-> items]

\* A list, as Repeat._match returns and Repeat.fill consumes.
PyList(items) == [tag |-> "list", items |-> items]

\* A dict, as a sequence of <<key, value>> pairs in insertion order.
PyDict(pairs) == [tag |-> "dict", items |-> pairs]

\* An exception raised out of fill (KeyError from a dict lookup).
Error(type) == [tag |-> "error", type |-> type]

Keys(d) == {d.items[i][1] : i \in 1..Len(d.items)}

\* dict.get(k): the value stored under k, None when k is no key.
Get(d, k) ==
  IF k \in Keys(d)
  THEN (CHOOSE pr \in {d.items[i] : i \in 1..Len(d.items)} : pr[1] = k)[2]
  ELSE None

\* s[a:b] of Python: the characters at 0-based positions a .. b-1.
Slice(s, a, b) == SubSeq(s, a + 1, b)

(***************************************************************************)
(* Regular expressions (the part of Python's re the templates use).        *)
(* A compiled pattern is a sequence of elements, each a character class    *)
(* with a quantifier, matched greedily with backtracking; at most one      *)
(* capture group, spanning the elements gfrom..gto.                        *)
(***************************************************************************)
Quantifiers == {"?", "+", "*"}

\* One element: the characters in cls (or, negated, those not in cls), quantified.
Elem(cls, neg, q) == [cls |-> cls, neg |-> neg, q |-> q]

Regex(elems) == [elems |-> elems, groups |-> 0, gfrom |-> 0, gto |-> 0]

RegexGroup(elems, gfrom, gto) == [elems |-> elems, groups |-> 1, gfrom |-> gfrom, gto |-> gto]

\* re.compile of a pattern text made of literal characters, '.', and the
\* postfix quantifiers ? + * : the characters the regex syntax gives a meaning
\* keep that meaning (a '+' in the text is a quantifier, not a literal plus).
RECURSIVE CompileFrom(_, _)
CompileFrom(p, i) ==
  IF i > Len(p) THEN <<>>
  ELSE LET quantified == i + 1 <= Len(p) /\ p[i + 1] \in Quantifiers
           q == IF quantified THEN p[i + 1] ELSE "1"
           atom == IF p[i] = "." THEN Elem({"\n"}, TRUE, q) ELSE Elem({p[i]}, FALSE, q)
       IN <<atom>> \o CompileFrom(p, IF quantified THEN i + 2 ELSE i + 1)

re_compile(p) == Regex(CompileFrom(p, 1))

ElemAccepts(e, c) == (c \in e.cls) # e.neg

ElemMin(e) == IF e.q \in {"1", "+"} THEN 1 ELSE 0

\* How many characters from position p on the element can take at most.
RECURSIVE ElemRun(_, _, _, _)
ElemRun(e, s, p, n) ==
  IF p + n < Len(s) /\ ElemAccepts(e, s[p + n + 1]) /\ (e.q \in {"+", "*"} \/ n = 0)
  THEN ElemRun(e, s, p, n + 1)
  ELSE n

NoMatch == <<-1>>

\* The end positions of elements i..Len(elems) in the first match the
\* backtracking search finds from position p (longest repetition first), or NoMatch.
RECURSIVE ReEnds(_, _, _, _), ReTry(_, _, _, _, _)
ReEnds(elems, i, s, p) ==
  IF i > Len(elems) THEN <<>>
  ELSE ReTry(elems, i, s, p, ElemRun(elems[i], s, p, 0))

ReTry(elems, i, s, p, k) ==
  IF k < ElemMin(elems[i]) THEN NoMatch
  ELSE LET rest == ReEnds(elems, i + 1, s, p + k)
       IN IF rest = NoMatch THEN ReTry(elems, i, s, p, k - 1) ELSE <<p + k>> \o rest

\* pattern.match(s, pos=pos): a match object (its start and the element ends), or None.
re_match(re, s, pos) ==
  LET ends == ReEnds(re.elems, 1, s, pos)
  IN IF ends = NoMatch THEN None
     ELSE [tag |-> "match", start |-> pos, ends |-> ends,
           end |-> IF ends = <<>> THEN pos ELSE ends[Len(ends)]]

\* m.group(idx): the whole match for 0, the capture group's text for 1.
group(re, m, s, idx) ==
  IF idx = 0 THEN Slice(s, m.start, m.end)
  ELSE Slice(s, IF re.gfrom = 1 THEN m.start ELSE m.ends[re.gfrom - 1], m.ends[re.gto])

(***************************************************************************)
(* Decimal text <-> integer (int(s, base=10) and str(i)).                  *)
(***************************************************************************)
Digits == <<"0", "1", "2", "3", "4", "5", "6", "7", "8", "9">>

DigitChars == {Digits[i] : i \in 1..10}

DigitValue(c) == (CHOOSE i \in 1..10 : Digits[i] = c) - 1

\* The value of the digit characters s[1..n], most significant first.
RECURSIVE DigitsValue(_, _)
DigitsValue(s, n) ==
  IF n = 0 THEN 0 ELSE 10 * DigitsValue(s, n - 1) + DigitValue(s[n])

\* int() losing the sign.
int_unsigned(v) ==
  IF v = None THEN Error("TypeError")
  ELSE LET ds == IF Len(v.s) > 0 /\ v.s[1] = "-" THEN Tail(v.s) ELSE v.s
       IN PyInt(DigitsValue(ds, Len(ds)))

\* int(s, base=10) on the texts the templates hand it: an optional '-' and
\* digits; None raises TypeError and any other text ValueError.
int(v) ==
  IF v = None THEN Error("TypeError")
  ELSE LET s == v.s
           neg == Len(s) > 0 /\ s[1] = "-"
           ds == IF neg THEN Tail(s) ELSE s
       IN IF Len(ds) = 0 \/ \E i \in 1..Len(ds) : ds[i] \notin DigitChars
          THEN Error("ValueError")
          ELSE PyInt(IF neg THEN 0 - DigitsValue(ds, Len(ds)) ELSE DigitsValue(ds, Len(ds)))

RECURSIVE NatToStr(_)
NatToStr(n) ==
  IF n < 10 THEN <<Digits[n + 1]>> ELSE NatToStr(n \div 10) \o <<Digits[(n % 10) + 1]>>

\* str(v): decimal text of an integer, "True"/"False" of a bool, a string itself.
str(v) ==
  CASE v.tag = "int" -> PyStr(IF v.i < 0 THEN <<"-">> \o NatToStr(0 - v.i) ELSE NatToStr(v.i))
    [] v.tag = "bool" -> PyStr(IF v.b THEN <<"T", "r", "u", "e">> ELSE <<"F", "a", "l", "s", "e">>)
    [] OTHER -> v

(***************************************************************************)
(* Template constructors (the __init__ methods).                           *)
(***************************************************************************)
\* Fixed(default): the accepted pattern is the default text, compiled as a regex.
Fixed(default) ==
  [kind |-> "Fixed", default |-> default, accepted_pattern |-> re_compile(default)]

\* Fixed(default, accepted_pattern=...), the pattern given in compiled form.
FixedAccepting(default, accepted_pattern) ==
  [kind |-> "Fixed", default |-> default, accepted_pattern |-> accepted_pattern]

\* A string becomes Fixed(string); a template stays itself.
str_to_fixed(str_or_template) ==
  IF "tag" \in DOMAIN str_or_template THEN Fixed(str_or_template.s) ELSE str_or_template

NOTHING == Fixed(<<>>)

Pattern(pattern) ==
  [kind |-> "Pattern", pattern |-> pattern,
   group_idx |-> IF pattern.groups = 0 THEN 0 ELSE 1]

\* -?[0-9]+
IntegerPattern == Regex(<<Elem({"-"}, FALSE, "?"), Elem(DigitChars, FALSE, "+")>>)

Integer == [kind |-> "Integer", pattern |-> IntegerPattern, group_idx |-> 0]

AppendTemplate(item_templates) ==
  [kind |-> "Append",
   item_templates |-> [i \in 1..Len(item_templates) |-> str_to_fixed(item_templates[i])]]

Repeat(item_template, delimiter, trailing_delimiter) ==
  [kind |-> "Repeat", item_template |-> item_template,
   delimiter |-> str_to_fixed(delimiter), trailing_delimiter |-> trailing_delimiter]

NumberedList(label_template, item_template, delimiter, trailing_delimiter, start_idx) ==
  [kind |-> "NumberedList",
   item_template |-> AppendTemplate(<<label_template, item_template>>),
   delimiter |-> str_to_fixed(delimiter), trailing_delimiter |-> trailing_delimiter,
   start_idx |-> start_idx]

\* suffix is None when the Affix has none.
Affix(prefix, content, suffix) ==
  [kind |-> "Affix", prefix |-> str_to_fixed(prefix), content |-> content,
   suffix |-> IF suffix = None THEN None ELSE str_to_fixed(suffix)]

Suffix(content, suffix) == Affix(NOTHING, content, suffix)

Prefix(prefix, content) == Affix(prefix, content, None)

\* fields: a sequence of <<name, string or template>> in declaration order.
Record(fields) ==
  [kind |-> "Record",
   fields |-> [i \in 1..Len(fields) |-> <<fields[i][1], str_to_fixed(fields[i][2])>>]]

\* value_templates: a sequence of <<value, string or Fixed>> in insertion order.
Option(value_templates) ==
  [kind |-> "Option",
   value_templates |-> [i \in 1..Len(value_templates) |->
                          <<value_templates[i][1], str_to_fixed(value_templates[i][2])>>]]

\* [^\n\.\?\!]+[\.\?\!]?
SENTENCE ==
  Pattern(Regex(<<Elem({"\n", ".", "?", "!"}, TRUE, "+"), Elem({".", "?", "!"}, FALSE, "?")>>))

EOL == Fixed(<<"\n">>)

\* Fixed(' ', accepted_pattern=r' +')
SPACE == FixedAccepting(<<" ">>, Regex(<<Elem({" "}, FALSE, "+")>>))

YES_NO == Option(<<<<PyBool(FALSE), PyStr(<<"N", "o">>)>>, <<PyBool(TRUE), PyStr(<<"Y", "e", "s">>)>>>>)

NUM == Integer

(***************************************************************************)
(* match: text -> data.  Every _match takes the cursor (s, pos) and gives  *)
(* the value it returns (None on failure) and the position it leaves the   *)
(* cursor at (StringPos is passed by reference and advanced in place).     *)
(***************************************************************************)
Res(val, pos) == [val |-> val, pos |-> pos]

\* Stands for a call that never returns (a Repeat loop that makes no progress).
Diverges == [tag |-> "diverges"]

RECURSIVE Match(_, _, _)

Fixed_match(t, s, pos) ==
  LET m == re_match(t.accepted_pattern, s, pos)
  IN IF m = None THEN Res(None, pos)
     ELSE LET g0 == group(t.accepted_pattern, m, s, 0)
          IN Res(PyStr(g0), pos + Len(g0))

Pattern_match(t, s, pos) ==
  LET m == re_match(t.pattern, s, pos)
  IN IF m = None THEN Res(None, pos)
     ELSE Res(PyStr(group(t.pattern, m, s, t.group_idx)),
              pos + Len(group(t.pattern, m, s, 0)))

Integer_match(t, s, pos) ==
  LET revert_pos == pos
      r == Pattern_match(t, s, pos)
      i == int(r.val)
  IN IF i.tag = "error" THEN Res(None, revert_pos) ELSE Res(i, r.pos)

\* The for loop of Append._match from item template i on.
RECURSIVE Append_match_from(_, _, _, _, _)
Append_match_from(t, i, s, pos, matches) ==
  IF i > Len(t.item_templates) THEN Res(PyTuple(matches), pos)
  ELSE LET m == Match(t.item_templates[i], s, pos)
       IN IF m.val = None THEN Res(None, m.pos)
          ELSE Append_match_from(t, i + 1, s, m.pos, Append(matches, m.val))

Append_match(t, s, pos) == Append_match_from(t, 1, s, pos, <<>>)

\* The locals of Repeat._match on entry.
Repeat_enter(pos) ==
  [pos |-> pos, vals |-> <<>>, i_revert |-> pos, last_dm |-> None, looping |-> TRUE]

\* One evaluation of the while condition and, when it holds, of the loop body.
Repeat_iter(t, s, st) ==
  LET m == Match(t.item_template, s, st.pos)
  IN IF m.val = None
     THEN [st EXCEPT !.pos = m.pos, !.looping = FALSE]
     ELSE LET dm == Match(t.delimiter, s, m.pos)
          IN [pos |-> dm.pos, vals |-> Append(st.vals, m.val), i_revert |-> m.pos,
              last_dm |-> dm.val, looping |-> dm.val # None]

\* Repeat._match without the rollback of a trailing delimiter.
Repeat_exit_no_rollback(t, st) == Res(PyList(st.vals), st.pos)

\* After the loop: undo a delimiter that no item followed, and return vals.
Repeat_exit(t, st) ==
  IF st.last_dm # None /\ ~t.trailing_delimiter
  THEN Res(PyList(st.vals), st.i_revert)
  ELSE Res(PyList(st.vals), st.pos)

\* The loop run to its end.  An iteration that goes round again with the cursor
\* where it was repeats forever (the matchers depend on (s, pos) alone).
RECURSIVE Repeat_loop(_, _, _)
Repeat_loop(t, s, st) ==
  IF ~st.looping THEN Repeat_exit(t, st)
  ELSE LET nx == Repeat_iter(t, s, st)
       IN IF nx.looping /\ nx.pos = st.pos THEN Res(Diverges, st.pos)
          ELSE Repeat_loop(t, s, nx)

Repeat_match(t, s, pos) == Repeat_loop(t, s, Repeat_enter(pos))

\* [pair[1] for pair in sm]
NumberedList_project(sm) ==
  IF sm.val = None \/ sm.val = Diverges THEN sm
  ELSE Res(PyList([i \in 1..Len(sm.val.items) |-> sm.val.items[i].items[2]]), sm.pos)

NumberedList_match(t, s, pos) == NumberedList_project(Repeat_match(t, s, pos))

\* Affix._match failing when a configured suffix does not match.
Affix_match_strict(t, s, pos) ==
  LET pm == Match(t.prefix, s, pos)
  IN IF pm.val = None THEN Res(None, pm.pos)
     ELSE LET cm == Match(t.content, s, pm.pos)
          IN IF cm.val = None THEN Res(None, cm.pos)
             ELSE IF t.suffix # None
                  THEN LET sm == Match(t.suffix, s, cm.pos)
                       IN IF sm.val = None THEN Res(None, sm.pos) ELSE Res(cm.val, sm.pos)
                  ELSE cm

Affix_match(t, s, pos) ==
  LET pm == Match(t.prefix, s, pos)
  IN IF pm.val = None THEN Res(None, pm.pos)
     ELSE LET cm == Match(t.content, s, pm.pos)
          IN IF cm.val = None THEN Res(None, cm.pos)
             ELSE IF t.suffix # None
                  THEN Res(cm.val, Match(t.suffix, s, cm.pos).pos)
                  ELSE cm

\* The for loop of Record._match from field i on.
RECURSIVE Record_match_from(_, _, _, _, _)
Record_match_from(t, i, s, pos, rec) ==
  IF i > Len(t.fields) THEN Res(PyDict(rec), pos)
  ELSE LET m == Match(t.fields[i][2], s, pos)
       IN Record_match_from(t, i + 1, s, m.pos,
            IF m.val # None THEN Append(rec, <<t.fields[i][1], m.val>>) ELSE rec)

Record_match(t, s, pos) == Record_match_from(t, 1, s, pos, <<>>)

\* The for loop of Option._match from value i on.
RECURSIVE Option_match_from(_, _, _, _)
Option_match_from(t, i, s, pos) ==
  IF i > Len(t.value_templates) THEN Res(None, pos)
  ELSE LET m == Match(t.value_templates[i][2], s, pos)
       IN IF m.val # None THEN Res(t.value_templates[i][1], m.pos)
          ELSE Option_match_from(t, i + 1, s, m.pos)

\* Option._match trying the value declared last first.
Option_match_reversed(t, s, pos) ==
  Option_match_from(
    [t EXCEPT !.value_templates =
       [i \in 1..Len(t.value_templates) |->
          t.value_templates[Len(t.value_templates) + 1 - i]]],
    1, s, pos)

Option_match(t, s, pos) == Option_match_from(t, 1, s, pos)

\* Dynamic dispatch of template._match(sp).
Match(t, s, pos) ==
  CASE t.kind = "Fixed" -> Fixed_match(t, s, pos)
    [] t.kind = "Pattern" -> Pattern_match(t, s, pos)
    [] t.kind = "Integer" -> Integer_match(t, s, pos)
    [] t.kind = "Append" -> Append_match(t, s, pos)
    [] t.kind = "Repeat" -> Repeat_match(t, s, pos)
    [] t.kind = "NumberedList" -> NumberedList_match(t, s, pos)
    [] t.kind = "Affix" -> Affix_match(t, s, pos)
    [] t.kind = "Record" -> Record_match(t, s, pos)
    [] t.kind = "Option" -> Option_match(t, s, pos)

\* Template.match returning the value with the cursor's final position.
Template_match_with_position(m, sp_pos) ==
  IF m = None THEN None ELSE PyTuple(<<m, PyInt(sp_pos)>>)

\* Template.match(s, pos): what the caller gets back from _match on a fresh cursor.
Template_match(m, sp_pos) == m

(***************************************************************************)
(* fill: data -> text.  The result is a str, or the exception raised.      *)
(***************************************************************************)
EmptyStr == PyStr(<<>>)

\* a + b on strings; an exception in either operand propagates, and a
\* non-string operand raises TypeError.
Cat(a, b) ==
  IF a.tag = "error" THEN a
  ELSE IF b.tag = "error" THEN b
  ELSE IF a.tag # "str" \/ b.tag # "str" THEN Error("TypeError")
  ELSE PyStr(a.s \o b.s)

\* d.join(parts)
RECURSIVE Join(_, _)
Join(d, parts) ==
  IF Len(parts) = 0 THEN EmptyStr
  ELSE IF Len(parts) = 1 THEN Cat(EmptyStr, parts[1])
  ELSE Cat(Cat(parts[1], d), Join(d, Tail(parts)))

RECURSIVE Fill(_, _)

Fixed_fill(t) == PyStr(t.default)

Pattern_fill(t, s) == IF s = None THEN EmptyStr ELSE s

Integer_fill(t, i) == IF i = None THEN EmptyStr ELSE Pattern_fill(t, str(i))

\* zip(self.item_templates, items) stops at the shorter of the two.
Append_fill(t, items) ==
  IF items = None THEN EmptyStr
  ELSE LET n == IF Len(t.item_templates) < Len(items.items)
                THEN Len(t.item_templates) ELSE Len(items.items)
       IN Join(EmptyStr, [i \in 1..n |-> Fill(t.item_templates[i], items.items[i])])

\* Repeat.fill appending the delimiter whatever trailing_delimiter says.
Repeat_fill_always_trailing(t, values) ==
  IF values = None THEN EmptyStr
  ELSE Cat(Join(Fixed_fill(t.delimiter),
                [i \in 1..Len(values.items) |-> Fill(t.item_template, values.items[i])]),
           Fixed_fill(t.delimiter))

Repeat_fill(t, values) ==
  IF values = None THEN EmptyStr
  ELSE LET d == Fixed_fill(t.delimiter)
           filled == Join(d, [i \in 1..Len(values.items) |->
                                Fill(t.item_template, values.items[i])])
       IN IF t.trailing_delimiter THEN Cat(filled, d) ELSE filled

\* zip(map(str, range(start_idx, len(values) + start_idx)), values)
NumberedList_pairs(t, values) ==
  PyList([i \in 1..Len(values.items) |->
            PyTuple(<<str(PyInt(t.start_idx + i - 1)), values.items[i]>>)])

NumberedList_fill(t, values) ==
  IF values = None THEN EmptyStr ELSE Repeat_fill(t, NumberedList_pairs(t, values))

Affix_fill(t, c) ==
  LET filled == Cat(Fixed_fill(t.prefix), Fill(t.content, c))
  IN IF t.suffix # None /\ c # None THEN Cat(filled, Fixed_fill(t.suffix)) ELSE filled

\* Record.fill going through every declared field.
Record_present_all(t, rec) == t.fields

\* The fields of the record whose name is a key of rec, in declaration order.
Record_present(t, rec) ==
  SelectSeq(t.fields, LAMBDA f : f[1] \in Keys(rec))

Record_fill(t, rec) ==
  IF rec = None THEN EmptyStr
  ELSE LET fs == Record_present(t, rec)
       IN Join(EmptyStr, [i \in 1..Len(fs) |-> Fill(fs[i][2], Get(rec, fs[i][1]))])

Option_fill(t, val) ==
  IF val = None THEN EmptyStr
  ELSE IF \E i \in 1..Len(t.value_templates) : t.value_templates[i][1] = val
  THEN Fixed_fill(t.value_templates[
         CHOOSE i \in 1..Len(t.value_templates) : t.value_templates[i][1] = val][2])
  ELSE Error("KeyError")

\* Dynamic dispatch of template.fill(value).
Fill(t, v) ==
  CASE t.kind = "Fixed" -> Fixed_fill(t)
    [] t.kind = "Pattern" -> Pattern_fill(t, v)
    [] t.kind = "Integer" -> Integer_fill(t, v)
    [] t.kind = "Append" -> Append_fill(t, v)
    [] t.kind = "Repeat" -> Repeat_fill(t, v)
    [] t.kind = "NumberedList" -> NumberedList_fill(t, v)
    [] t.kind = "Affix" -> Affix_fill(t, v)
    [] t.kind = "Record" -> Record_fill(t, v)
    [] t.kind = "Option" -> Option_fill(t, v)

(***************************************************************************)
(* The templates exercised, the characters their input texts are drawn     *)
(* from and the values handed to their fill.                               *)
(***************************************************************************)
\* Pattern('[ab]')
AB == Pattern(Regex(<<Elem({"a", "b"}, FALSE, "1")>>))

\* Pattern('a*')
AStar == Pattern(Regex(<<Elem({"a"}, FALSE, "*")>>))

\* Pattern('(a+)b')
AGroupB == Pattern(RegexGroup(<<Elem({"a"}, FALSE, "+"), Elem({"b"}, FALSE, "1")>>, 1, 1))

FixedAB == Fixed(<<"a", "b">>)

\* Fixed('a+'): a literal whose text holds a regex quantifier.
FixedPlus == Fixed(<<"a", "+">>)

AppendNumAB == AppendTemplate(<<NUM, PyStr(<<",">>), AB>>)

RepeatAB == Repeat(AB, PyStr(<<",">>), FALSE)

RepeatABTrailing == Repeat(AB, PyStr(<<",">>), TRUE)

RepeatNum == Repeat(NUM, SPACE, FALSE)

\* An item and a delimiter that both match without consuming anything.
RepeatStar == Repeat(AStar, PyStr(<<>>), FALSE)

\* A Record item never fails; the empty delimiter always matches.
RepeatRecord == Repeat(Record(<<<<"n", NUM>>>>), PyStr(<<>>), TRUE)

\* NumberedList(Suffix(NUM, '. '), SENTENCE, EOL), default options.
NumList == NumberedList(Suffix(NUM, PyStr(<<".", " ">>)), SENTENCE, EOL, FALSE, 1)

NumListTrailing == NumberedList(Suffix(NUM, PyStr(<<".", " ">>)), SENTENCE, EOL, TRUE, 1)

NumListFrom9 == NumberedList(Suffix(NUM, PyStr(<<".", " ">>)), SENTENCE, EOL, FALSE, 9)

\* Option({1: 'a', 2: 'ab'})
OptionAAB == Option(<<<<PyInt(1), PyStr(<<"a">>)>>, <<PyInt(2), PyStr(<<"a", "b">>)>>>>)

\* Option({2: 'ab', 1: 'a'})
OptionABA == Option(<<<<PyInt(2), PyStr(<<"a", "b">>)>>, <<PyInt(1), PyStr(<<"a">>)>>>>)

AffixNum == Affix(PyStr(<<"<">>), NUM, PyStr(<<">">>))

PrefixAB == Prefix(PyStr(<<"<">>), AB)

SuffixNum == Suffix(NUM, PyStr(<<" ">>))

\* A Repeat inside a Prefix, as in example.py.
PrefixRepeat == Prefix(PyStr(<<"<">>), RepeatAB)

\* Record(a=Suffix(NUM, ' '), b=NUM)
RecordAB == Record(<<<<"a", SuffixNum>>, <<"b", NUM>>>>)

\* Record(question=Affix('Q: ', SENTENCE, EOL), answer=Prefix('A: ', YES_NO))
RecordQA ==
  Record(<<<<"question", Affix(PyStr(<<"Q", ":", " ">>), SENTENCE, EOL)>>,
           <<"answer", Prefix(PyStr(<<"A", ":", " ">>), YES_NO)>>>>)

Templates ==
  {FixedAB, FixedPlus, SPACE, SENTENCE, AGroupB, NUM, AppendNumAB,
   RepeatAB, RepeatABTrailing, RepeatNum, RepeatStar, RepeatRecord,
   NumList, NumListTrailing, NumListFrom9, OptionAAB, OptionABA,
   AffixNum, PrefixAB, SuffixNum, PrefixRepeat, RecordAB, RecordQA}

\* The characters the input texts of a template are made of.
InputChars(t) ==
  CASE t \in {FixedAB, AGroupB, OptionAAB, OptionABA, RepeatStar} -> {"a", "b"}
    [] t = FixedPlus -> {"a", "+"}
    [] t = SPACE -> {" ", "a"}
    [] t = SENTENCE -> {"a", ".", "\n"}
    [] t = NUM -> {"1", "2", "-", "x"}
    [] t = AppendNumAB -> {"1", ",", "a"}
    [] t \in {RepeatAB, RepeatABTrailing} -> {"a", "b", ","}
    [] t = RepeatNum -> {"1", "-", " "}
    [] t = RepeatRecord -> {"1", "x"}
    [] t \in {NumList, NumListTrailing, NumListFrom9} -> {"1", ".", " ", "a"}
    [] t = AffixNum -> {"<", "1", ">", "x"}
    [] t = PrefixAB -> {"<", "a"}
    [] t = PrefixRepeat -> {"<", "a", ","}
    [] t = SuffixNum -> {"1", " "}
    [] t = RecordAB -> {"1", "2", " "}
    [] t = RecordQA -> {"Q", "A", ":", " "}

\* The texts of at most MaxLen characters over a set of characters.
Texts(chars) == UNION {[1..n -> chars] : n \in 0..MaxLen}

First == PyStr(<<"F", "i", "r", "s", "t", ".">>)

Second == PyStr(<<"S", "e", "c", "o", "n", "d", ".">>)

A == PyStr(<<"a">>)

B == PyStr(<<"b">>)

Question == PyStr(<<"a", "?">>)

\* The values handed to fill: values of the template's domain, None, and for
\* Append and Option values outside the domain (wrong arity, unregistered key).
FillArgs(t) ==
  CASE t = FixedAB -> {PyStr(<<"a", "b">>)}
    [] t = FixedPlus -> {PyStr(<<"a", "+">>)}
    [] t = SPACE -> {PyStr(<<" ">>)}
    [] t = SENTENCE -> {PyStr(<<"a", ".">>), A, None}
    [] t = AGroupB -> {PyStr(<<"a", "a", "b">>)}
    [] t = NUM -> {PyInt(12), PyInt(-7), PyInt(0), PyInt(10), None}
    [] t = AppendNumAB ->
         {PyTuple(<<PyInt(1), PyStr(<<",">>), A>>), PyTuple(<<PyInt(-12), PyStr(<<",">>), B>>),
          PyTuple(<<PyInt(1)>>), PyTuple(<<PyInt(1), PyStr(<<",">>)>>),
          PyTuple(<<PyInt(1), PyStr(<<",">>), A, B>>), PyTuple(<<>>), None}
    [] t \in {RepeatAB, RepeatABTrailing} ->
         {PyList(<<>>), PyList(<<A>>), PyList(<<A, B>>), PyList(<<B, A, B>>), None}
    [] t = RepeatNum -> {PyList(<<PyInt(1), PyInt(-2)>>), PyList(<<PyInt(10)>>), None}
    [] t \in {RepeatStar, RepeatRecord} -> {}
    [] t \in {NumList, NumListTrailing, NumListFrom9} ->
         {PyList(<<First, Second>>), PyList(<<First>>), PyList(<<>>),
          PyList(<<A, B, A>>), None}
    [] t \in {OptionAAB, OptionABA} -> {PyInt(1), PyInt(2), PyInt(3), None}
    [] t \in {AffixNum, SuffixNum} -> {PyInt(1), PyInt(-12), None}
    [] t = PrefixAB -> {A, B, None}
    [] t = PrefixRepeat -> {PyList(<<A, B>>), PyList(<<>>), None}
    [] t = RecordAB ->
         {PyDict(<<<<"a", PyInt(1)>>, <<"b", PyInt(2)>>>>), PyDict(<<<<"b", PyInt(2)>>>>),
          PyDict(<<<<"a", PyInt(1)>>>>), PyDict(<<>>), None}
    [] t = RecordQA ->
         {PyDict(<<<<"question", Question>>, <<"answer", PyBool(TRUE)>>>>),
          PyDict(<<<<"question", Question>>, <<"answer", PyBool(FALSE)>>>>),
          PyDict(<<<<"question", Question>>, <<"answer", None>>>>),
          PyDict(<<<<"question", Question>>>>),
          PyDict(<<<<"answer", PyBool(TRUE)>>>>)}

(***************************************************************************)
(* The state machine: one template, and one call of fill or match on it.   *)
(* A match of a Repeat or NumberedList is followed iteration by iteration. *)
(***************************************************************************)
VARIABLES
  self,      \* the template the call is made on
  pc,        \* "idle", "filled", "call", "loop", "exit", "done"
  op,        \* "none", "fill", "match", "roundtrip" (match of the text fill returned)
  arg,       \* the value given to fill
  s,         \* sp.s: the text being matched
  start,     \* the pos argument of match
  pos,       \* sp.pos: the cursor
  vals,      \* Repeat._match: the values collected so far
  i_revert,  \* Repeat._match: the cursor after the last item
  last_dm,   \* Repeat._match: what the last delimiter match returned
  ret        \* what the call returned

vars == <<self, pc, op, arg, s, start, pos, vals, i_revert, last_dm, ret>>

RepeatKinds == {"Repeat", "NumberedList"}

Init ==
  /\ self \in Templates
  /\ pc = "idle"
  /\ op = "none"
  /\ arg = None
  /\ s = <<>>
  /\ start = 0
  /\ pos = 0
  /\ vals = <<>>
  /\ i_revert = 0
  /\ last_dm = None
  /\ ret = None

\* self.fill(v)
CallFill ==
  /\ pc = "idle"
  /\ \E v \in FillArgs(self) :
       /\ arg' = v
       /\ ret' = Fill(self, v)
  /\ op' = "fill"
  /\ pc' = "filled"
  /\ UNCHANGED <<self, s, start, pos, vals, i_revert, last_dm>>

\* self.match(text, p): a fresh cursor StringPos(text, pos=p).
CallMatch ==
  /\ pc = "idle"
  /\ \E text \in Texts(InputChars(self)) : \E p \in 0..Len(text) :
       /\ s' = text
       /\ start' = p
       /\ pos' = p
  /\ op' = "match"
  /\ pc' = "call"
  /\ UNCHANGED <<self, arg, vals, i_revert, last_dm, ret>>

\* self.match(self.fill(v)): the text fill returned, from position 0.
CallMatchFilled ==
  /\ pc = "filled"
  /\ ret.tag = "str"
  /\ s' = ret.s
  /\ start' = 0
  /\ pos' = 0
  /\ ret' = None
  /\ op' = "roundtrip"
  /\ pc' = "call"
  /\ UNCHANGED <<self, arg, vals, i_revert, last_dm>>

\* self._match(sp) of every template but Repeat and NumberedList, and the return.
MatchReturn ==
  /\ pc = "call"
  /\ self.kind \notin RepeatKinds
  /\ LET m == Match(self, s, pos)
     IN /\ pos' = m.pos
        /\ ret' = Template_match(m.val, m.pos)
  /\ pc' = "done"
  /\ UNCHANGED <<self, op, arg, s, start, vals, i_revert, last_dm>>

\* Repeat._match: the locals before the loop.
RepeatEnter ==
  /\ pc = "call"
  /\ self.kind \in RepeatKinds
  /\ vals' = Repeat_enter(pos).vals
  /\ i_revert' = Repeat_enter(pos).i_revert
  /\ last_dm' = Repeat_enter(pos).last_dm
  /\ pc' = "loop"
  /\ UNCHANGED <<self, op, arg, s, start, pos, ret>>

\* Repeat._match: the while condition and, when it holds, the loop body.
RepeatIter ==
  /\ pc = "loop"
  /\ Len(vals) < MaxVals
  /\ LET nx == Repeat_iter(self, s, [pos |-> pos, vals |-> vals, i_revert |-> i_revert,
                                     last_dm |-> last_dm, looping |-> TRUE])
     IN /\ pos' = nx.pos
        /\ vals' = nx.vals
        /\ i_revert' = nx.i_revert
        /\ last_dm' = nx.last_dm
        /\ pc' = IF nx.looping THEN "loop" ELSE "exit"
  /\ UNCHANGED <<self, op, arg, s, start, ret>>

\* Repeat._match after the loop (NumberedList keeps the items only), and the return.
RepeatExit ==
  /\ pc = "exit"
  /\ LET r == Repeat_exit(self, [pos |-> pos, vals |-> vals, i_revert |-> i_revert,
                                 last_dm |-> last_dm, looping |-> FALSE])
         m == IF self.kind = "NumberedList" THEN NumberedList_project(r) ELSE r
     IN /\ pos' = m.pos
        /\ ret' = Template_match(m.val, m.pos)
  /\ pc' = "done"
  /\ UNCHANGED <<self, op, arg, s, start, vals, i_revert, last_dm>>

Next ==
  \/ CallFill
  \/ CallMatch
  \/ CallMatchFilled
  \/ MatchReturn
  \/ RepeatEnter
  \/ RepeatIter
  \/ RepeatExit

Spec == Init /\ [][Next]_vars

(***************************************************************************)
(* What the properties are stated with: literal text at a position, and    *)
(* decimal notation, written without the operators of the model above.     *)
(***************************************************************************)
\* The text lit stands in txt at the 0-based position p.
LiteralAt(lit, txt, p) ==
  /\ p + Len(lit) <= Len(txt)
  /\ \A i \in 1..Len(lit) : txt[p + i] = lit[i]

IsDigit(c) == c \in {"0", "1", "2", "3", "4", "5", "6", "7", "8", "9"}

DigitOf(c) ==
  CASE c = "0" -> 0 [] c = "1" -> 1 [] c = "2" -> 2 [] c = "3" -> 3 [] c = "4" -> 4
    [] c = "5" -> 5 [] c = "6" -> 6 [] c = "7" -> 7 [] c = "8" -> 8 [] c = "9" -> 9

RECURSIVE Pow10(_)
Pow10(k) == IF k = 0 THEN 1 ELSE 10 * Pow10(k - 1)

\* The number the n digits txt[a+1 .. a+n] denote: the sum of digit * 10^place.
RECURSIVE Denoted(_, _, _, _)
Denoted(txt, a, n, k) ==
  IF k > n THEN 0 ELSE DigitOf(txt[a + k]) * Pow10(n - k) + Denoted(txt, a, n, k + 1)

\* The length of the longest run of digits of txt from position a on.
DigitRun(txt, a) ==
  CHOOSE n \in 0..(Len(txt) - a) :
    /\ \A k \in 1..n : IsDigit(txt[a + k])
    /\ (a + n = Len(txt) \/ ~IsDigit(txt[a + n + 1]))

Matched == pc = "done" /\ op = "match"

(***************************************************************************)
(* C1  Round trip: for a template built from Fixed, Pattern, Integer,      *)
(* Append, Record, Option and Repeat and a value v of its fill domain whose *)
(* rendering is unambiguous, matching fill(v) from position 0 succeeds,    *)
(* gives back exactly v and leaves the cursor at the end of the text.      *)
(***************************************************************************)
\* The values of the fill domain with an unambiguous rendering.  Left out:
\* None (the absent value); a wrong arity or an unregistered key; a pattern
\* with a capture group (match returns the group only); RecordAB without its
\* field a (the text of b is then read as a); the value 2 of OptionAAB (its
\* text starts with the text of value 1); the empty list under a trailing
\* delimiter (rendered as the delimiter alone); the Repeats whose delimiter is
\* empty.
RoundTripDomain(t) ==
  CASE t \in {FixedAB, FixedPlus, SPACE, NUM, RepeatAB, RepeatNum, OptionABA} ->
         FillArgs(t) \ {None, PyInt(3)}
    [] t = SENTENCE -> {PyStr(<<"a", ".">>), A}
    [] t = AppendNumAB -> {v \in FillArgs(t) \ {None} : Len(v.items) = 3}
    [] t = RepeatABTrailing -> FillArgs(t) \ {None, PyList(<<>>)}
    [] t = OptionAAB -> {PyInt(1)}
    [] t = RecordAB -> FillArgs(t) \ {None, PyDict(<<<<"b", PyInt(2)>>>>)}
    [] t = RecordQA -> {v \in FillArgs(t) : Get(v, "answer") # None \/ "answer" \notin Keys(v)}
    [] OTHER -> {}

RoundTripDone == pc = "done" /\ op = "roundtrip" /\ arg \in RoundTripDomain(self)

\* C1: matching the text fill(v) gives v back and consumes the whole text.
RoundTrip == RoundTripDone => (ret = arg /\ pos = Len(s))

\* The same for every template of the domain but the Fixed whose text holds a
\* regex quantifier: there the round trip holds.
RoundTripOfPlainText == (RoundTripDone /\ self # FixedPlus) => (ret = arg /\ pos = Len(s))

(***************************************************************************)
(* C2  Repeat trailing-delimiter law: a Repeat over leaf item and          *)
(* delimiter templates with trailing_delimiter=False returns the items in  *)
(* order and leaves the cursor right after the last matched item, so a     *)
(* delimiter no item follows is not consumed; fill joins the items with    *)
(* the delimiter, and adds one more delimiter only when trailing_delimiter *)
(* is set.  Stated for Repeat(Pattern('[ab]'), ','), and the cursor part   *)
(* for Repeat(NUM, SPACE) as well.                                         *)
(***************************************************************************)
IsItemAB(c) == c \in {"a", "b"}

\* items[1], ",", items[2], ",", ..., items[n]
JoinedByComma(items) ==
  [k \in 1..(IF Len(items) = 0 THEN 0 ELSE 2 * Len(items) - 1) |->
     IF k % 2 = 1 THEN items[(k + 1) \div 2].s[1] ELSE ","]

RepeatMatchLaw ==
  (pc = "done" /\ op \in {"match", "roundtrip"} /\ self = RepeatAB) =>
    /\ ret.tag = "list"
    /\ LET n == Len(ret.items)
       IN /\ pos = start + (IF n = 0 THEN 0 ELSE 2 * n - 1)
          /\ \A i \in 1..n : /\ IsItemAB(s[start + 2 * i - 1])
                             /\ ret.items[i] = PyStr(<<s[start + 2 * i - 1]>>)
          /\ \A i \in 1..(n - 1) : s[start + 2 * i] = ","
          /\ n = 0 => ~(start < Len(s) /\ IsItemAB(s[start + 1]))
          /\ n > 0 => ~(pos + 2 <= Len(s) /\ s[pos + 1] = "," /\ IsItemAB(s[pos + 2]))

\* The character before the cursor belongs to an item, never to a delimiter.
RepeatCursorLaw ==
  (pc = "done" /\ self \in {RepeatAB, RepeatNum} /\ vals # <<>>) =>
    /\ pos = i_revert
    /\ ~IsDigit(s[pos]) => IsItemAB(s[pos])

RepeatFillLaw ==
  (pc = "filled" /\ self \in {RepeatAB, RepeatABTrailing} /\ arg # None) =>
    ret = PyStr(JoinedByComma(arg.items) \o (IF self = RepeatABTrailing THEN <<",">> ELSE <<>>))

\* C2: the match law, the cursor law and the fill law together.
RepeatTrailingDelimiterLaw == RepeatMatchLaw /\ RepeatCursorLaw /\ RepeatFillLaw

\* 'a,b,' from 0 gives ['a', 'b'] with the cursor at 3.
RepeatTrailingDelimiterWitness ==
  /\ Matched
  /\ self = RepeatAB
  /\ s = <<"a", ",", "b", ",">>
  /\ start = 0
  /\ ret = PyList(<<A, B>>)
  /\ pos = 3

(***************************************************************************)
(* C3  Option declaration-order precedence: Option.match returns the first *)
(* declared value whose text stands at the cursor and advances by exactly  *)
(* that text, even when a value declared later has a longer text there;    *)
(* when no value's text stands at the cursor it fails, cursor unchanged.   *)
(***************************************************************************)
\* The indices of the values whose literal text stands in the text at start.
OptionHits(t) ==
  {i \in 1..Len(t.value_templates) : LiteralAt(t.value_templates[i][2].default, s, start)}

\* C3: the first declared value whose text stands at the cursor is returned.
OptionPrecedence ==
  (pc = "done" /\ op = "match" /\ self.kind = "Option") =>
    IF OptionHits(self) = {}
    THEN ret = None /\ pos = start
    ELSE LET i == CHOOSE h \in OptionHits(self) : \A g \in OptionHits(self) : h <= g
         IN /\ ret = self.value_templates[i][1]
            /\ pos = start + Len(self.value_templates[i][2].default)

\* Option({1: 'a', 2: 'ab'}) on 'ab' returns 1 and consumes one character.
OptionPrecedenceWitness ==
  /\ Matched
  /\ self = OptionAAB
  /\ s = <<"a", "b">>
  /\ start = 0
  /\ ret = PyInt(1)
  /\ pos = 1

(***************************************************************************)
(* C4  Integer match and rollback: Integer.match either returns the signed *)
(* base-10 integer denoted by the longest run -?[0-9]+ at the cursor and   *)
(* advances the cursor by the length of that run, or fails with the cursor *)
(* where it was before the match.                                          *)
(***************************************************************************)
\* C4: the longest run -?[0-9]+ is read as a number, or the cursor stays.
IntegerMatchRollback ==
  (pc = "done" /\ op = "match" /\ self = NUM) =>
    LET neg == start < Len(s) /\ s[start + 1] = "-"
        d0 == IF neg THEN start + 1 ELSE start
        nd == DigitRun(s, d0)
    IN IF nd = 0
       THEN ret = None /\ pos = start
       ELSE /\ ret = PyInt(IF neg THEN 0 - Denoted(s, d0, nd, 1) ELSE Denoted(s, d0, nd, 1))
            /\ pos = d0 + nd

\* '12x' from 0 gives 12 with the cursor at 2.
IntegerMatchWitness ==
  /\ Matched
  /\ self = NUM
  /\ s = <<"1", "2", "x">>
  /\ start = 0
  /\ ret = PyInt(12)
  /\ pos = 2

\* 'x12' from 0 fails with the cursor still at 0.
IntegerRollbackWitness ==
  /\ Matched
  /\ self = NUM
  /\ s = <<"x", "1", "2">>
  /\ start = 0
  /\ ret = None
  /\ pos = 0

(***************************************************************************)
(* C5  NumberedList fill: item i (0-based) of the list is rendered as the  *)
(* label template filled with the decimal ordinal start_idx + i, followed  *)
(* by the item's fill, in order.  As claimed, with default options every   *)
(* entry, the last included, is followed by the newline delimiter:         *)
(* ['First.', 'Second.'] gives '1. First.\n2. Second.\n'.                  *)
(***************************************************************************)
\* C5 as claimed: the last entry too is followed by the newline.
NumberedListTrailingNewline ==
  (pc = "filled" /\ self = NumList /\ arg = PyList(<<First, Second>>)) =>
    ret = PyStr(<<"1", ".", " ">> \o First.s \o <<"\n">>
                \o <<"2", ".", " ">> \o Second.s \o <<"\n">>)

(***************************************************************************)
(* C5, amended: the entries are separated by the delimiter, and the last   *)
(* entry is followed by it only when trailing_delimiter is set; with       *)
(* default options ['First.', 'Second.'] gives '1. First.\n2. Second.'.    *)
(***************************************************************************)
\* The decimal notation of an ordinal below 100.
Ordinal(n) ==
  LET d == <<"0", "1", "2", "3", "4", "5", "6", "7", "8", "9">>
  IN IF n < 10 THEN <<d[n + 1]>> ELSE <<d[(n \div 10) + 1], d[(n % 10) + 1]>>

\* Entries i..Len(items): ordinal, ". ", item text, with "\n" between entries.
RECURSIVE NumberedEntries(_, _, _)
NumberedEntries(first, items, i) ==
  IF i > Len(items) THEN <<>>
  ELSE Ordinal(first + i - 1) \o <<".", " ">> \o items[i].s
       \o (IF i < Len(items) THEN <<"\n">> ELSE <<>>)
       \o NumberedEntries(first, items, i + 1)

\* C5, amended: numbered entries joined by the delimiter, trailing only if set.
NumberedListFill ==
  (pc = "filled" /\ self.kind = "NumberedList" /\ arg # None) =>
    /\ ret = PyStr(NumberedEntries(self.start_idx, arg.items, 1)
                   \o (IF self.trailing_delimiter THEN <<"\n">> ELSE <<>>))
    /\ (self = NumList /\ arg = PyList(<<First, Second>>)) =>
         ret = PyStr(<<"1", ".", " ">> \o First.s \o <<"\n">> \o <<"2", ".", " ">> \o Second.s)

NumberedListFillWitness ==
  /\ pc = "filled"
  /\ self = NumList
  /\ arg = PyList(<<First, Second>>)
  /\ ret = PyStr(<<"1", ".", " ", "F", "i", "r", "s", "t", ".", "\n",
                   "2", ".", " ", "S", "e", "c", "o", "n", "d", ".">>)

(***************************************************************************)
(* C6  Append.fill arity check: a sequence of items that has not exactly   *)
(* as many entries as the Append has sub-templates makes fill fail with an *)
(* error, not return a text built from a truncated pairing.                *)
(***************************************************************************)
\* C6: fill with a wrong number of items raises an error.
AppendFillArity ==
  (pc = "filled" /\ self.kind = "Append" /\ arg # None
     /\ Len(arg.items) # Len(self.item_templates)) =>
    ret.tag = "error"

RECURSIVE ValueOf(_, _)
ValueOf(t, v) ==
  CASE t.kind \in {"Fixed", "Pattern"} -> v.tag = "str"
    [] t.kind = "Integer" -> v.tag = "int"
    [] t.kind = "Append" ->
         /\ v.tag = "tuple"
         /\ Len(v.items) = Len(t.item_templates)
         /\ \A i \in 1..Len(v.items) : ValueOf(t.item_templates[i], v.items[i])
    [] t.kind = "Repeat" ->
         v.tag = "list" /\ \A i \in 1..Len(v.items) : ValueOf(t.item_template, v.items[i])
    [] t.kind = "NumberedList" ->
         /\ v.tag = "list"
         /\ \A i \in 1..Len(v.items) : ValueOf(t.item_template.item_templates[2], v.items[i])
    [] t.kind = "Affix" -> ValueOf(t.content, v)
    [] t.kind = "Record" ->
         /\ v.tag = "dict"
         /\ \A i \in 1..Len(v.items) :
              \E j \in 1..Len(t.fields) :
                t.fields[j][1] = v.items[i][1] /\ ValueOf(t.fields[j][2], v.items[i][2])
    [] t.kind = "Option" ->
         \E i \in 1..Len(t.value_templates) : t.value_templates[i][1] = v

RECURSIVE FieldsFilled(_, _, _)
FieldsFilled(t, rec, i) ==
  IF i > Len(t.fields) THEN <<>>
  ELSE (IF t.fields[i][1] \in Keys(rec)
        THEN Fill(t.fields[i][2], Get(rec, t.fields[i][1])).s
        ELSE <<>>)
       \o FieldsFilled(t, rec, i + 1)

\* C8: the fields present in rec are filled in order, the others give nothing.
RecordFillOmission ==
  (pc = "filled" /\ self.kind = "Record" /\ arg # None) =>
    /\ ret = PyStr(FieldsFilled(self, arg, 1))
    /\ (self = RecordAB /\ arg = PyDict(<<<<"b", PyInt(2)>>>>)) => ret = PyStr(<<"2">>)
    /\ (self = RecordQA /\ arg = PyDict(<<<<"question", Question>>>>)) =>
         ret = PyStr(<<"Q", ":", " ", "a", "?", "\n">>)
    /\ (self = RecordQA /\ arg = PyDict(<<<<"answer", PyBool(TRUE)>>>>)) =>
         ret = PyStr(<<"A", ":", " ", "Y", "e", "s">>)

\* Record(a=Suffix(NUM, ' '), b=NUM).fill({'b': 2}) gives '2'.
RecordFillOmissionWitness ==
  /\ pc = "filled"
  /\ self = RecordAB
  /\ arg = PyDict(<<<<"b", PyInt(2)>>>>)
  /\ ret = PyStr(<<"2">>)

(***************************************************************************)
(* C9  Affix suffix leniency: Affix.match fails with the cursor unchanged  *)
(* when the prefix does not match, and fails when the content does not     *)
(* match; when both match it returns the content's value whether or not    *)
(* the suffix matches, the cursor ending right after the suffix when the   *)
(* suffix matched and right after the content when it did not.             *)
(***************************************************************************)
\* C9: prefix and content decide the outcome; the suffix only moves the cursor.
AffixSuffixLeniency ==
  (pc = "done" /\ op = "match" /\ self.kind = "Affix") =>
    IF ~LiteralAt(self.prefix.default, s, start)
    THEN ret = None /\ pos = start
    ELSE LET cm == Match(self.content, s, start + Len(self.prefix.default))
         IN IF cm.val = None
            THEN ret = None
            ELSE /\ ret = cm.val
                 /\ pos = IF self.suffix # None /\ LiteralAt(self.suffix.default, s, cm.pos)
                          THEN cm.pos + Len(self.suffix.default)
                          ELSE cm.pos

\* Affix('<', NUM, '>') on '<1x': the suffix does not match, 1 is returned.
AffixSuffixLeniencyWitness ==
  /\ Matched
  /\ self = AffixNum
  /\ s = <<"<", "1", "x">>
  /\ start = 0
  /\ ret = PyInt(1)
  /\ pos = 2

\* The stepwise Repeat loop and the loop run inside a call agree.
RepeatStepsAgree ==
  (pc = "done" /\ self.kind \in RepeatKinds) => Res(ret, pos) = Match(self, s, start)

(***************************************************************************)
(* C10  Repeat matching terminates: Repeat.match finishes after finitely   *)
(* many loop iterations, also when the item and the delimiter can both     *)
(* match without consuming input.  What an iteration does depends on the   *)
(* text and the cursor alone, so the loop ends exactly when every          *)
(* iteration that goes round again has moved the cursor forward.           *)
(***************************************************************************)
\* C10: every iteration of the Repeat loop that goes round again moves the cursor.
RepeatMatchTerminates ==
  [][(pc = "loop" /\ pc' = "loop") => pos' > pos]_vars

====
